---- MODULE Spec2Model ----
(***************************************************************************)
(* Row ordering of a Baserow table: RowHandler.create_row, move_row and    *)
(* delete_row over the decimal `order` column of the generated table       *)
(* model, as exercised by tests/baserow/contrib/database/rows.             *)
(*                                                                         *)
(* An order value is a Decimal with 20 fractional digits.  It is held here *)
(* as an integer number of `change` units (the smallest representable      *)
(* step, Decimal("0.00000000000000000001")), Scale units making 1.         *)
(***************************************************************************)
EXTENDS Integers, FiniteSets, Sequences, TLC

\* Number of `change` units in the whole number 1 (10^20 in the program).
Scale == 3
\* Number of rows that are ever created in the table.
MaxRows == 3
\* Highest whole order number an append or a move to the end may hand out.
MaxOrder == 3

\* The fraction subtracted from the order of the row to be placed before.
change == 1

Ids == 1..MaxRows
NoRow == 0

\* The requests that run an insert transaction at the same time.
Procs == {1, 2}
NoProc == 0

\* Longest include or exclude argument, in tokens.
MaxTokens == 2

\* Most items of a `values` dict.
MaxKeys == 2

\* Number of link row fields.
MaxLinks == 3

VARIABLES
    order,     \* order[r]: value of the order column of row r, in change units
    active,    \* rows of model.objects (not trashed)
    trash,     \* rows of model.trash
    nextId,    \* id the next created row gets
    last,      \* the call that was made last and its outcome
    pc,        \* pc[p]: how far request p is in its insert transaction
    tgt,       \* tgt[p]: the `before` row of request p
    rd,        \* rd[p]: the order request p computed from the order it read
    cid,       \* cid[p]: the row request p inserted
    waited,    \* waited[p]: p found its `before` row in use by another request
    lockedBy,  \* lockedBy[r]: the request that holds the row lock of r, or 0
    tableLock, \* the request that holds the lock of the table, or 0
    registry,  \* Registry.registry: the registered instances, in insertion order
    rres,      \* the registry call that was made last and its outcome
    under,     \* under[t]: the instance that the calls so far left registered
               \* under type name t, or 0
    field,     \* field[f]: the NumberField object of field f
    col,       \* col[f][r]: what column field_<f> holds for row r
    fres,      \* the call of a field type that was made last and its outcome
    events,    \* the signals that the last call of the row handler sent
    err,       \* the exception that the last call of the row handler raised
    caller,    \* the user of the last call of the row handler
    sres,      \* the last call of get_include_exclude_fields and its outcome
    rel,       \* rel[f]: link_row_relation_id of link row field f in the
               \* database, or -1 while f is not saved
    related,   \* related[f]: link_row_related_field of link row field f, or 0
    ltrash,    \* the link row fields that are trashed
    spc,       \* spc[p]: how far request p is in LinkRowField.save
    sfld,      \* sfld[p]: the link row field that request p saves
    sid,       \* sid[p]: self.link_row_relation_id of the object p saves
    srel,      \* srel[p]: self.link_row_related_field of the object p saves
    payload    \* the `values` dict that the calls of the row handler are given

\* The state of the insert transactions.
txvars == <<pc, tgt, rd, cid, waited, lockedBy, tableLock>>

\* The state of the registry.
regvars == <<registry, rres, under>>

\* The rows of the table.
rowvars == <<order, active, trash, nextId, last>>

\* The fields of the table and the values of its rows.
fieldvars == <<field, col, fres>>

\* The outcome of the last call of the row handler.
callvars == <<events, err, caller>>

\* The link row fields and the requests that save them.
linkvars == <<rel, related, ltrash, spc, sfld, sid, srel>>

\* What the calls on rows, number fields and the registry leave alone.
extvars == <<sres, linkvars, payload>>

vars == <<order, active, trash, nextId, last, pc, tgt, rd, cid, waited, lockedBy,
          tableLock, registry, rres, under, field, col, fres, events, err, caller,
          sres, rel, related, ltrash, spc, sfld, sid, srel, payload>>

----------------------------------------------------------------------------
\* Decimal helpers

\* floor(o) and ceil(o) of an order value, again in change units.
Floor(o) == (o \div Scale) * Scale
Ceil(o) == ((o + Scale - 1) \div Scale) * Scale

SetMax(S) == CHOOSE x \in S : \A y \in S : y <= x

\* model.objects.aggregate(max=Max("order")).get("max") or Decimal("0")
MaxOrderOf(ord, act) == IF act = {} THEN 0 ELSE SetMax({ord[r] : r \in act})

\* The generated model lists its rows by ("order", "id").
ListedBefore(ord, a, b) == ord[a] < ord[b] \/ (ord[a] = ord[b] /\ a < b)

\* 1-based position of row r when act is listed.
Rank(ord, act, r) == 1 + Cardinality({s \in act : ListedBefore(ord, s, r)})

\* model.objects.all() as a sequence of row ids.
Listing(ord, act) ==
    [i \in 1..Cardinality(act) |-> CHOOSE r \in act : Rank(ord, act, r) = i]

----------------------------------------------------------------------------
\* Order computation

\* Variant: the highest order plus one, not rounded up.
AppendOrderNoCeil(ord, act) == MaxOrderOf(ord, act) + Scale

\* Variant: the highest order rounded down to a whole number, plus one.
AppendOrderFloor(ord, act) == Floor(MaxOrderOf(ord, act)) + Scale

\* Order of a row that is added as last: the highest order rounded up to a
\* whole number, plus one.
AppendOrder(ord, act) == Ceil(MaxOrderOf(ord, act)) + Scale

\* Variant: a coarser fraction, two changes, is subtracted.
BeforeOrderCoarse(ord, t) == ord[t] - 2 * change

\* Order of a row that is placed before row t.
BeforeOrder(ord, t) == ord[t] - change

\* Variant: filter(order__gt=floor(new), order__lt=new).
ShiftRangeStrict(ord, act, new) ==
    {r \in act : ord[r] > Floor(new) /\ ord[r] < new}

\* Variant: filter(order__lte=new), without the lower limit.
ShiftRangeNoFloor(ord, act, new) ==
    {r \in act : ord[r] <= new}

\* Rows whose order is lowered by `change` to make room at `new`:
\* filter(order__gt=floor(new), order__lte=new).
ShiftRange(ord, act, new) ==
    {r \in act : ord[r] > Floor(new) /\ ord[r] <= new}

\* Variant: the update of the shift range is left out.
ShiftedNothing(ord, act, new) == [r \in Ids |-> ord[r]]

\* update(order=F("order") - change) over the shift range.
Shifted(ord, act, new) ==
    [r \in Ids |-> IF r \in ShiftRange(ord, act, new)
                   THEN ord[r] - change ELSE ord[r]]

\* No distinguishable fractional digit remains below `new`: either `new`
\* itself is a whole number, or a row that must make room already sits one
\* `change` above the whole number.
Exhausted(ord, act, new) ==
    \/ new = Floor(new)
    \/ \E r \in ShiftRange(ord, act, new) : ord[r] - change = Floor(new)

\* Variant: the rows are renumbered one change apart.
ResequenceDense(ord, act) ==
    [r \in Ids |-> IF r \in act THEN Rank(ord, act, r) * change ELSE ord[r]]

\* Re-sequencing pass: every row gets the whole number of its position.
Resequence(ord, act) ==
    [r \in Ids |-> IF r \in act THEN Rank(ord, act, r) * Scale ELSE ord[r]]

\* Placing row id before row t: the order column afterwards, whether the
\* re-sequencing pass ran, and whether the placement succeeded.
PlaceBefore(ord, act, id, t) ==
    IF ~Exhausted(ord, act, BeforeOrder(ord, t))
    THEN [ord   |-> [Shifted(ord, act, BeforeOrder(ord, t))
                        EXCEPT ![id] = BeforeOrder(ord, t)],
          reseq |-> FALSE, ok |-> TRUE]
    ELSE LET o2 == Resequence(ord, act) IN
         IF ~Exhausted(o2, act, BeforeOrder(o2, t))
         THEN [ord   |-> [Shifted(o2, act, BeforeOrder(o2, t))
                             EXCEPT ![id] = BeforeOrder(o2, t)],
               reseq |-> TRUE, ok |-> TRUE]
         ELSE [ord |-> ord, reseq |-> TRUE, ok |-> FALSE]

----------------------------------------------------------------------------
\* Registry of instance types (core/registry.py)

\* The type names that are asked for; no instance has the type "boolean".
Tags == {"text", "number", "field", "boolean"}

\* The model classes; every class other than Field extends Field directly.
Classes == {"Field", "TextField", "NumberField", "BooleanField"}

\* issubclass(c, d)
IsSubclass(c, d) == c = d \/ d = "Field"

\* The Instance objects that are offered to the registry.  Instances 2 and 3
\* are two objects of the same type; instance 4 is a type for the model
\* class that the other model classes extend.
InstanceIds == 1..4
NoInstance == 0
TypeOf == <<"text", "number", "number", "field">>
ModelClassOf == <<"TextField", "NumberField", "NumberField", "Field">>

\* The arguments of the registry calls: an Instance, a string, an object
\* that is neither, an object of a model class, and a model class itself.
InstArg(i) == [kind |-> "instance", uid |-> i, name |-> ""]
StrArg(t) == [kind |-> "str", uid |-> NoInstance, name |-> t]
OtherArg == [kind |-> "other", uid |-> NoInstance, name |-> ""]
ModelObjectArg(c) == [kind |-> "model_object", uid |-> NoInstance, name |-> c]
ModelClassArg(c) == [kind |-> "model_class", uid |-> NoInstance, name |-> c]

\* self.registry.keys()
Keys(reg) == {TypeOf[reg[k]] : k \in DOMAIN reg}

\* self.registry[type_name], for a type_name in the registry.
Lookup(reg, t) == reg[CHOOSE k \in DOMAIN reg : TypeOf[reg[k]] = t]

\* del self.registry[type_name]: the other entries keep their order.
Without(reg, t) == SelectSeq(reg, LAMBDA i : TypeOf[i] # t)

\* The condition of get_by_model for the registered instance i.
Matches(i, m) ==
    \/ m.kind = "model_class" /\ ModelClassOf[i] = m.name
    \/ m.kind = "model_object" /\ IsSubclass(m.name, ModelClassOf[i])

\* The record of a registry call: the method, its argument, the exception it
\* raised ("none" when it returned) and the instance it returned.
RegCall(op, arg, e, ret) == [op |-> op, arg |-> arg, err |-> e, ret |-> ret]

----------------------------------------------------------------------------
\* Number fields (fields/models.py and fields/field_types.py)

NUMBER_TYPE_INTEGER == "INTEGER"
NUMBER_TYPE_DECIMAL == "DECIMAL"

\* The two number fields of the table of the row tests: "Max speed", an
\* integer field that allows negative values, and "Price", a decimal field
\* that does not.
Speed == 1
Price == 2
FieldIds == {Speed, Price}

\* A NumberField object.
NumberField(id, type, negative) ==
    [id |-> id, number_type |-> type, number_negative |-> negative]

\* The numbers that are written: a negative one, zero and a positive one.
Nums == {-1, 0, 1}

\* A Python value that is handed over for a number field: None, an int, a
\* float, a str that holds a number, or a Decimal.
Value(k, n) == [kind |-> k, num |-> n]
None == Value("none", 0)
RawValues == {None} \cup {Value(k, n) : k \in {"int", "float", "str"}, n \in Nums}

\* The field is not a key of the `values` dict.
Absent == Value("absent", 0)

\* NULL in a column of the table.
Null == 9

\* bool(value): None and a number that is zero are false; a str that holds a
\* number is not empty and so is true.
Truthy(v) == v.kind \notin {"none", "absent"} /\ (v.kind = "str" \/ v.num # 0)

\* Decimal(value)
ToDecimal(v) == Value("decimal", v.num)

\* The outcome of prepare_value_for_db: the exception that was raised ("none"
\* when the method returned), the field id its message names, and the value
\* that was returned.
Raised(e, f) == [err |-> e, field |-> f, value |-> None]
Returned(v) == [err |-> "none", field |-> 0, value |-> v]

\* NumberFieldType.prepare_value_for_db(instance, value).  Comparing a str
\* with 0 raises TypeError.
PrepareValueForDb(instance, value) ==
    LET v == IF Truthy(value) /\ instance.number_type = NUMBER_TYPE_DECIMAL
             THEN ToDecimal(value) ELSE value
    IN  IF Truthy(v) /\ ~instance.number_negative
        THEN IF v.kind = "str" THEN Raised("TypeError", 0)
             ELSE IF v.num < 0 THEN Raised("ValidationError", instance.id)
             ELSE Returned(v)
        ELSE Returned(v)

\* prepare_values: every value of the dict goes through prepare_value_for_db
\* of its field, in the order of the field ids; the first exception ends it.
PrepareValues(flds, vals) ==
    LET outs == [f \in FieldIds |->
                    IF vals[f] = Absent THEN Returned(Absent)
                    ELSE PrepareValueForDb(flds[f], vals[f])]
        failing == {f \in FieldIds : outs[f].err # "none"}
    IN  [err  |-> IF failing = {} THEN "none"
                  ELSE outs[CHOOSE f \in failing : \A g \in failing : f <= g].err,
         vals |-> [f \in FieldIds |-> outs[f].value]]

\* What the column holds after a prepared value was saved.
Store(v) == IF v.kind \in {"none", "absent"} THEN Null ELSE v.num

\* The `values` dicts: no value, and one value for one of the fields.
NoValues == [f \in FieldIds |-> Absent]
OneValue(f, v) == [g \in FieldIds |-> IF g = f THEN v ELSE Absent]

\* NumberFieldType.get_model_field: the Django field of the column.
ModelField(instance) ==
    IF instance.number_type = NUMBER_TYPE_INTEGER THEN "IntegerField"
    ELSE "DecimalField"

\* NumberFieldType.get_alter_column_type_function for the two vendors; any
\* vendor other than postgresql gets the default of FieldType, a plain cast.
AlterColumnTypeFunction(vendor, instance) ==
    IF vendor = "postgresql"
    THEN IF ~instance.number_negative THEN "greatest_round_0" ELSE "round"
    ELSE "cast"

\* The value of a cell after the column was altered with function fn:
\* greatest(round(p_in), 0) gives 0 for a negative number and, as greatest
\* leaves a NULL argument out, for NULL; round and the cast keep NULL and
\* the whole numbers.
Convert(fn, v) ==
    IF fn = "greatest_round_0" /\ (v = Null \/ v < 0) THEN 0
    ELSE v

\* Variant: the negative values are rewritten whenever negative values are
\* no longer allowed, whether or not the column was altered.
AfterUpdateAlways(fld, old_field, c, act, altered_column) ==
    IF ~fld.number_negative /\ old_field.number_negative
    THEN [col |-> [c EXCEPT ![fld.id] =
                      [r \in Ids |-> IF r \in act /\ c[fld.id][r] # Null
                                         /\ c[fld.id][r] < 0
                                     THEN 0 ELSE c[fld.id][r]]],
          ran |-> 1]
    ELSE [col |-> c, ran |-> 0]

\* NumberFieldType.after_update: the columns afterwards and the number of
\* update statements that ran.  model.objects holds the rows of act, the rows
\* that are not trashed.
AfterUpdate(fld, old_field, c, act, altered_column) ==
    IF ~altered_column /\ ~fld.number_negative /\ old_field.number_negative
    THEN [col |-> [c EXCEPT ![fld.id] =
                      [r \in Ids |-> IF r \in act /\ c[fld.id][r] # Null
                                         /\ c[fld.id][r] < 0
                                     THEN 0 ELSE c[fld.id][r]]],
          ran |-> 1]
    ELSE [col |-> c, ran |-> 0]

\* The record of a call of a field type: the method, the field, the value
\* that was passed, the outcome of prepare_value_for_db, and for an update of
\* the field how often after_update was called, the altered_column it was
\* passed, how many update statements it ran and the rows it rewrote.
Hook(calls, altered, ran, rewritten) ==
    [calls |-> calls, altered |-> altered, ran |-> ran, rewritten |-> rewritten]
NoHook == Hook(0, FALSE, 0, {})
FieldCall(op, f, raw, out, hook) ==
    [op |-> op, field |-> f, raw |-> raw, out |-> out, hook |-> hook]
NoFieldCall == FieldCall("none", 0, None, Returned(None), NoHook)

----------------------------------------------------------------------------
\* Users and signals

\* The user of the group of the table, and a user who is not in that group.
Member == "member"
Outsider == "outsider"
Users == {Member, Outsider}

\* Variant: every user passes the check.
HasUserAnyone(u) == u \in Users

\* group.has_user(user, raise_error=True) does not raise UserNotInGroup.
HasUser(u) == u = Member

\* What the receivers of a `before` signal return.
BeforeReturns == {"a", "b"}
NoReturn == "none"

\* A signal that was sent: its name, the row it is about, and the return
\* value of the `before` signal (the return value itself for a `before`
\* signal, the before_return argument for the signal that follows it).
Event(name, row, ret) == [name |-> name, row |-> row, ret |-> ret]

\* user=None in the arguments of a signal.
NoUser == "none"

\* The row_created signal: the row, the user and the `before` row it is
\* sent with (NoRow stands for before=None).
Created(row, user, before) ==
    [name |-> "row_created", row |-> row, ret |-> NoReturn,
     user |-> user, before |-> before]

\* Variant: the signal after the change is sent without the return value of
\* the signal before the change.
SignalsNoReturn(before, after, row, ret) ==
    <<Event(before, row, ret), Event(after, row, NoReturn)>>

\* The signals of a change of a row: the one before it, then the one after
\* it with the return value of the first.
Signals(before, after, row, ret) ==
    <<Event(before, row, ret), Event(after, row, ret)>>

----------------------------------------------------------------------------
\* Selection of fields by include and exclude

\* A field of another table, and an id that no field has.
OtherTableField == 3
UnknownField == 9

\* Field.objects.filter(table=table): the fields of the table.
TableFields == FieldIds

\* The tokens of an include or exclude string: field_<id>, a token of other
\* text that holds the digits of <id>, and a token without a digit.
Token(form, id) == [form |-> form, id |-> id]
Tokens ==
    {Token("field", i) : i \in TableFields \cup {OtherTableField, UnknownField}}
        \cup {Token("text", Price), Token("word", 0)}

\* The include and exclude arguments: the tokens between the commas.  The
\* empty sequence stands for None and for "".
TokenStrings == UNION {[1..n -> Tokens] : n \in 0..MaxTokens}

\* extract_field_ids_from_string: the number that the digits of each token
\* make; a token without a digit gives nothing.
ExtractFieldIdsFromString(value) ==
    {value[i].id : i \in {j \in DOMAIN value : value[j].form # "word"}}

\* What get_include_exclude_fields returns: None, or fields of the table.
NoRestriction == [none |-> TRUE, fields |-> {}]
Selected(fields) == [none |-> FALSE, fields |-> fields]

\* Variant: the exclude argument is ignored when include names fields.
GetIncludeExcludeFieldsNoExclude(table, include, exclude) ==
    LET inc == ExtractFieldIdsFromString(include)
        exc == ExtractFieldIdsFromString(exclude)
    IN  IF inc = {} /\ exc = {} THEN NoRestriction
        ELSE IF inc # {} THEN Selected(table \cap inc)
        ELSE Selected(table \ exc)

\* get_include_exclude_fields(table, include, exclude): None when neither
\* argument gives a field id, else the fields of the table with an id of
\* include, when it gives any, and without the ids of exclude.
GetIncludeExcludeFields(table, include, exclude) ==
    LET inc == ExtractFieldIdsFromString(include)
        exc == ExtractFieldIdsFromString(exclude)
    IN  IF inc = {} /\ exc = {} THEN NoRestriction
        ELSE Selected((IF inc = {} THEN table ELSE table \cap inc) \ exc)

\* The record of a call of get_include_exclude_fields.
Selection(op, include, exclude, ret) ==
    [op |-> op, include |-> include, exclude |-> exclude, ret |-> ret]
NoSelection == Selection("none", <<>>, <<>>, NoRestriction)

----------------------------------------------------------------------------
\* Keys of a `values` dict

\* A key of the dict: an integer <id>, a str of the digits of <id>, the str
\* field_<id>, or another str that holds the digits of <id> ("fieldd_<id>").
Key(form, id) == [form |-> form, id |-> id]

\* Variant: the digits of every key are taken, as for the tokens of a string.
FieldIdOfKeyDigits(key) == key.id

\* extract_field_ids_from_dict: the field id that a key gives, or 0.
FieldIdOfKey(key) ==
    IF key.form \in {"int", "digits", "field"} THEN key.id ELSE 0

\* An item of the dict.
Item(key, value) == [key |-> key, value |-> value]

\* The values that the row handler prepares: for every field of the table
\* the value of the item whose key gives its id.
ExtractValues(items) ==
    [f \in FieldIds |->
        IF \E it \in items : FieldIdOfKey(it.key) = f
        THEN (CHOOSE it \in items : FieldIdOfKey(it.key) = f).value
        ELSE Absent]

----------------------------------------------------------------------------
\* Link row fields

\* The link row field objects, and None for link_row_related_field.
LinkIds == 1..MaxLinks
NoLink == 0

\* None for link_row_relation_id, and the mark of a field that has no row in
\* the database yet.
NoRelation == 0
Unsaved == -1

\* LinkRowField.objects_and_trash.all(): the saved fields, trashed or not.
ObjectsAndTrash(r) == {f \in LinkIds : r[f] # Unsaved}

\* LinkRowField.get_new_relation_id(): the largest relation id of the saved
\* fields (0 when there is none, or none has an id) plus 1.
GetNewRelationId(r) ==
    LET ids == {r[f] : f \in ObjectsAndTrash(r)} \cup {0}
    IN  (CHOOSE x \in ids : \A y \in ids : y <= x) + 1

----------------------------------------------------------------------------
\* State machine

\* The record of a call: the operation, the row it created, moved or
\* deleted, the `before` row, whether the re-sequencing pass ran and whether
\* the call succeeded.
Call(op, id, before, reseq, ok) ==
    [op |-> op, id |-> id, before |-> before, reseq |-> reseq, ok |-> ok]

Init ==
    /\ order = [r \in Ids |-> 0]
    /\ active = {}
    /\ trash = {}
    /\ nextId = 1
    /\ last = Call("none", NoRow, NoRow, FALSE, TRUE)
    /\ pc = [p \in Procs |-> "idle"]
    /\ tgt = [p \in Procs |-> NoRow]
    /\ rd = [p \in Procs |-> 0]
    /\ cid = [p \in Procs |-> NoRow]
    /\ waited = [p \in Procs |-> FALSE]
    /\ lockedBy = [r \in Ids |-> NoProc]
    /\ tableLock = NoProc
    /\ registry = <<>>
    /\ rres = RegCall("none", OtherArg, "none", NoInstance)
    /\ under = [t \in Tags |-> NoInstance]
    /\ field = [f \in FieldIds |->
                   IF f = Speed THEN NumberField(f, NUMBER_TYPE_INTEGER, TRUE)
                   ELSE NumberField(f, NUMBER_TYPE_DECIMAL, FALSE)]
    /\ col = [f \in FieldIds |-> [r \in Ids |-> Null]]
    /\ fres = NoFieldCall
    /\ events = <<>>
    /\ err = "none"
    /\ caller = Member
    /\ sres = NoSelection
    /\ rel = [f \in LinkIds |-> Unsaved]
    /\ related = [f \in LinkIds |-> NoLink]
    /\ ltrash = {}
    /\ spc = [p \in Procs |-> "idle"]
    /\ sfld = [p \in Procs |-> NoLink]
    /\ sid = [p \in Procs |-> NoRelation]
    /\ srel = [p \in Procs |-> NoLink]
    /\ payload = {}

\* The call raised exception e after sending the signals evs: nothing of the
\* table is changed.
Raise(op, id, t, e, evs) ==
    /\ last' = Call(op, id, t, FALSE, FALSE)
    /\ err' = e
    /\ events' = evs
    /\ UNCHANGED <<order, active, trash, nextId, col>>

\* Variant: the row is inserted before its values are prepared, and stays
\* when a value is refused.
CreateRowSaveFirst(u, vals, t) ==
    /\ nextId <= MaxRows
    /\ t # NoRow => t \in active
    /\ caller' = u
    /\ fres' = NoFieldCall
    /\ UNCHANGED <<field, txvars, regvars, extvars>>
    /\ LET prep == PrepareValues(field, vals)
           op == IF t = NoRow THEN "append" ELSE "before"
           p == IF t = NoRow
                THEN [ord |-> [order EXCEPT ![nextId] = AppendOrder(order, active)],
                      reseq |-> FALSE, ok |-> TRUE]
                ELSE PlaceBefore(order, active, nextId, t)
       IN  IF ~HasUser(u)
           THEN Raise(op, NoRow, t, "UserNotInGroup", <<>>)
           ELSE /\ t = NoRow => AppendOrder(order, active) <= MaxOrder * Scale
                /\ order' = p.ord
                /\ active' = IF p.ok THEN active \cup {nextId} ELSE active
                /\ nextId' = IF p.ok THEN nextId + 1 ELSE nextId
                /\ col' = IF p.ok /\ prep.err = "none"
                          THEN [f \in FieldIds |->
                                   [col[f] EXCEPT ![nextId] = Store(prep.vals[f])]]
                          ELSE col
                /\ last' = Call(op, nextId, t, p.reseq, p.ok /\ prep.err = "none")
                /\ events' = IF p.ok /\ prep.err = "none"
                             THEN <<Created(nextId, u, t)>>
                             ELSE <<>>
                /\ err' = IF prep.err # "none" THEN prep.err
                          ELSE IF p.ok THEN "none" ELSE "OrderExhausted"
                /\ UNCHANGED trash

\* handler.create_row(user, table, values, before=t): the permission check,
\* the preparation of the values, the order of the new row, the insert and
\* the row_created signal.  t = NoRow stands for before=None.
CreateRow(u, vals, t) ==
    /\ nextId <= MaxRows
    /\ t # NoRow => t \in active
    /\ caller' = u
    /\ fres' = NoFieldCall
    /\ UNCHANGED <<field, txvars, regvars, extvars>>
    /\ LET prep == PrepareValues(field, vals)
           op == IF t = NoRow THEN "append" ELSE "before"
           p == IF t = NoRow
                THEN [ord |-> [order EXCEPT ![nextId] = AppendOrder(order, active)],
                      reseq |-> FALSE, ok |-> TRUE]
                ELSE PlaceBefore(order, active, nextId, t)
       IN  IF ~HasUser(u)
           THEN Raise(op, NoRow, t, "UserNotInGroup", <<>>)
           ELSE IF prep.err # "none"
           THEN Raise(op, NoRow, t, prep.err, <<>>)
           ELSE /\ t = NoRow => AppendOrder(order, active) <= MaxOrder * Scale
                /\ order' = p.ord
                /\ active' = IF p.ok THEN active \cup {nextId} ELSE active
                /\ nextId' = IF p.ok THEN nextId + 1 ELSE nextId
                /\ col' = IF p.ok
                          THEN [f \in FieldIds |->
                                   [col[f] EXCEPT ![nextId] = Store(prep.vals[f])]]
                          ELSE col
                /\ last' = Call(op, nextId, t, p.reseq, p.ok)
                /\ events' = IF p.ok
                             THEN <<Created(nextId, u, t)>>
                             ELSE <<>>
                /\ err' = IF p.ok THEN "none" ELSE "OrderExhausted"
                /\ UNCHANGED trash

\* handler.create_row(user, table)
CreateRowAppend == CreateRow(Member, NoValues, NoRow)

\* handler.create_row(user, table, before=t)
CreateRowBefore(t) == t \in active /\ CreateRow(Member, NoValues, t)

\* Variant: the values that passed are saved before a later value raises.
UpdateRowPartial(u, rid, vals, ret) ==
    /\ caller' = u
    /\ fres' = NoFieldCall
    /\ UNCHANGED <<field, txvars, regvars, extvars>>
    /\ LET prep == PrepareValues(field, vals) IN
       IF ~HasUser(u)
       THEN Raise("update", rid, NoRow, "UserNotInGroup", <<>>)
       ELSE IF rid \notin active
       THEN Raise("update", rid, NoRow, "RowDoesNotExist", <<>>)
       ELSE /\ col' = [f \in FieldIds |->
                          IF vals[f] = Absent
                             \/ PrepareValueForDb(field[f], vals[f]).err # "none"
                          THEN col[f]
                          ELSE [col[f] EXCEPT ![rid] = Store(prep.vals[f])]]
            /\ last' = Call("update", rid, NoRow, FALSE, prep.err = "none")
            /\ err' = prep.err
            /\ events' = IF prep.err = "none"
                         THEN Signals("before_row_update", "row_updated", rid, ret)
                         ELSE <<>>
            /\ UNCHANGED <<order, active, trash, nextId>>

\* handler.update_row(user, table, row_id, values): the permission check, the
\* lookup of the row, the before_row_update signal, the preparation of the
\* values, the save and the row_updated signal.  ret is what the receivers of
\* before_row_update return.  Whether before_row_update was sent when a value
\* is refused is not fixed by the tests; both are allowed here.
UpdateRow(u, rid, vals, ret) ==
    /\ caller' = u
    /\ fres' = NoFieldCall
    /\ UNCHANGED <<field, txvars, regvars, extvars>>
    /\ LET prep == PrepareValues(field, vals) IN
       IF ~HasUser(u)
       THEN Raise("update", rid, NoRow, "UserNotInGroup", <<>>)
       ELSE IF rid \notin active
       THEN Raise("update", rid, NoRow, "RowDoesNotExist", <<>>)
       ELSE IF prep.err # "none"
       THEN \/ Raise("update", rid, NoRow, prep.err, <<>>)
            \/ Raise("update", rid, NoRow, prep.err,
                     <<Event("before_row_update", rid, ret)>>)
       ELSE /\ col' = [f \in FieldIds |->
                          IF vals[f] = Absent THEN col[f]
                          ELSE [col[f] EXCEPT ![rid] = Store(prep.vals[f])]]
            /\ last' = Call("update", rid, NoRow, FALSE, TRUE)
            /\ err' = "none"
            /\ events' = Signals("before_row_update", "row_updated", rid, ret)
            /\ UNCHANGED <<order, active, trash, nextId>>

\* handler.move_row(user, table, row_id, before=t): the permission check, the
\* lookup of the row, the before_row_update signal, the new order and the
\* row_updated signal.  t = NoRow stands for before=None.
MoveRow(u, rid, t, ret) ==
    /\ t # NoRow => t \in active /\ t # rid
    /\ caller' = u
    /\ fres' = NoFieldCall
    /\ UNCHANGED <<field, txvars, regvars, extvars>>
    /\ LET op == IF t = NoRow THEN "move_end" ELSE "move_before"
           p == IF t = NoRow
                THEN [ord |-> [order EXCEPT ![rid] = AppendOrder(order, active)],
                      reseq |-> FALSE, ok |-> TRUE]
                ELSE PlaceBefore(order, active, rid, t)
       IN  IF ~HasUser(u)
           THEN Raise(op, rid, t, "UserNotInGroup", <<>>)
           ELSE IF rid \notin active
           THEN Raise(op, rid, t, "RowDoesNotExist", <<>>)
           ELSE /\ t = NoRow => AppendOrder(order, active) <= MaxOrder * Scale
                /\ order' = p.ord
                /\ last' = Call(op, rid, t, p.reseq, p.ok)
                /\ err' = IF p.ok THEN "none" ELSE "OrderExhausted"
                /\ events' = IF p.ok
                             THEN Signals("before_row_update", "row_updated", rid, ret)
                             ELSE <<Event("before_row_update", rid, ret)>>
                /\ UNCHANGED <<active, trash, nextId, col>>

\* Variant: the highest order is taken over the other rows only.
MoveRowEndOthers(r) ==
    /\ r \in active
    /\ AppendOrder(order, active) <= MaxOrder * Scale
    /\ order' = [order EXCEPT ![r] = AppendOrder(order, active \ {r})]
    /\ last' = Call("move_end", r, NoRow, FALSE, TRUE)
    /\ caller' = Member
    /\ err' = "none"
    /\ events' = Signals("before_row_update", "row_updated", r, "a")
    /\ fres' = NoFieldCall
    /\ UNCHANGED <<active, trash, nextId, col, field, txvars, regvars, extvars>>

\* handler.move_row(user, table, row_id=r)
MoveRowEnd(r) == r \in active /\ MoveRow(Member, r, NoRow, "a")

\* handler.move_row(user, table, row_id=r, before=t), for a row t other than
\* the moved one.
MoveRowBefore(r, t) == r \in active /\ t \in active /\ MoveRow(Member, r, t, "a")

\* handler.delete_row(user, table, row_id): the permission check, the lookup
\* of the row, the before_row_delete signal, the move of the row to the trash
\* and the row_deleted signal.  The update of the row waits for a row lock
\* that an insert transaction holds.
DeleteRowAs(u, rid, ret) ==
    /\ caller' = u
    /\ fres' = NoFieldCall
    /\ UNCHANGED <<field, txvars, regvars, extvars>>
    /\ IF ~HasUser(u)
       THEN Raise("delete", rid, NoRow, "UserNotInGroup", <<>>)
       ELSE IF rid \notin active
       THEN Raise("delete", rid, NoRow, "RowDoesNotExist", <<>>)
       ELSE /\ lockedBy[rid] = NoProc
            /\ active' = active \ {rid}
            /\ trash' = trash \cup {rid}
            /\ last' = Call("delete", rid, NoRow, FALSE, TRUE)
            /\ err' = "none"
            /\ events' = Signals("before_row_delete", "row_deleted", rid, ret)
            /\ UNCHANGED <<order, nextId, col>>

\* Variant: the remaining rows are re-sequenced after the delete.
DeleteRowResequence(r) ==
    /\ r \in active
    /\ lockedBy[r] = NoProc
    /\ active' = active \ {r}
    /\ trash' = trash \cup {r}
    /\ order' = Resequence(order, active \ {r})
    /\ last' = Call("delete", r, NoRow, FALSE, TRUE)
    /\ caller' = Member
    /\ err' = "none"
    /\ events' = Signals("before_row_delete", "row_deleted", r, "a")
    /\ fres' = NoFieldCall
    /\ UNCHANGED <<nextId, col, field, txvars, regvars, extvars>>

\* handler.delete_row(user, table, row_id=r)
DeleteRow(r) == r \in active /\ DeleteRowAs(Member, r, "a")

\* Variant: the signal of the restore names the user who restores.
RestoreRowActor(u, rid) ==
    /\ rid \in trash
    /\ caller' = u
    /\ fres' = NoFieldCall
    /\ UNCHANGED <<field, txvars, regvars, extvars>>
    /\ IF ~HasUser(u)
       THEN Raise("restore", rid, NoRow, "UserNotInGroup", <<>>)
       ELSE /\ active' = active \cup {rid}
            /\ trash' = trash \ {rid}
            /\ last' = Call("restore", rid, NoRow, FALSE, TRUE)
            /\ err' = "none"
            /\ events' = <<Created(rid, u, NoRow)>>
            /\ UNCHANGED <<order, nextId, col>>

\* TrashHandler.restore_item(user, "row", rid, parent_trash_item_id=table.id)
\* for a row in the trash: the permission check, the row leaves the trash
\* with the order and the values it was trashed with, and row_created is
\* sent with user=None and before=None.
RestoreRow(u, rid) ==
    /\ rid \in trash
    /\ caller' = u
    /\ fres' = NoFieldCall
    /\ UNCHANGED <<field, txvars, regvars, extvars>>
    /\ IF ~HasUser(u)
       THEN Raise("restore", rid, NoRow, "UserNotInGroup", <<>>)
       ELSE /\ active' = active \cup {rid}
            /\ trash' = trash \ {rid}
            /\ last' = Call("restore", rid, NoRow, FALSE, TRUE)
            /\ err' = "none"
            /\ events' = <<Created(rid, NoUser, NoRow)>>
            /\ UNCHANGED <<order, nextId, col>>

\* The row calls with the trash: rows are created, moved, deleted to the
\* trash and restored from it.
NextTrash ==
    \/ CreateRowAppend
    \/ \E t \in Ids : CreateRowBefore(t)
    \/ \E r \in Ids : MoveRowEnd(r)
    \/ \E r \in Ids : DeleteRow(r)
    \/ \E r \in Ids : RestoreRow(Member, r)

SpecTrash == Init /\ [][NextTrash]_vars

Next ==
    \/ CreateRowAppend
    \/ \E t \in Ids : CreateRowBefore(t)
    \/ \E r \in Ids : MoveRowEnd(r)
    \/ \E r, t \in Ids : MoveRowBefore(r, t)
    \/ \E r \in Ids : DeleteRow(r)

Spec == Init /\ [][Next]_vars

----------------------------------------------------------------------------
\* Insert before a row as a transaction of several statements, run by two
\* requests at the same time: take the row lock of the `before` row and read
\* its order, lower the rows that must make room, insert the new row, commit.
\* Appends and deletes of other requests come in between as single steps.

\* A request for create_row(before=t) arrives.
Request(p, t) ==
    /\ pc[p] = "idle"
    /\ t \in active
    /\ nextId + Cardinality({q \in Procs : pc[q] \in {"wait", "read", "shifted"}})
          <= MaxRows
    /\ pc' = [pc EXCEPT ![p] = "wait"]
    /\ tgt' = [tgt EXCEPT ![p] = t]
    /\ cid' = [cid EXCEPT ![p] = NoRow]
    /\ waited' = [waited EXCEPT ![p] =
                    \E q \in Procs \ {p} : pc[q] # "idle" /\ tgt[q] = t]
    /\ UNCHANGED <<order, active, trash, nextId, last, rd, lockedBy, tableLock, regvars, extvars, fieldvars, callvars>>

\* Variant: the order of the `before` row is read without its row lock.
LockRowNoWait(p) ==
    /\ pc[p] = "wait"
    /\ tgt[p] \in active
    /\ lockedBy' = [lockedBy EXCEPT ![tgt[p]] = p]
    /\ rd' = [rd EXCEPT ![p] = BeforeOrder(order, tgt[p])]
    /\ pc' = [pc EXCEPT ![p] = "read"]
    /\ UNCHANGED <<order, active, trash, nextId, last, tgt, cid, waited, tableLock, regvars, extvars, fieldvars, callvars>>

\* The request gets the row lock of its `before` row, once no other request
\* holds it, and computes the new order from the order it reads.
LockRow(p) ==
    /\ pc[p] = "wait"
    /\ tgt[p] \in active
    /\ lockedBy[tgt[p]] = NoProc
    /\ lockedBy' = [lockedBy EXCEPT ![tgt[p]] = p]
    /\ rd' = [rd EXCEPT ![p] = BeforeOrder(order, tgt[p])]
    /\ pc' = [pc EXCEPT ![p] = "read"]
    /\ UNCHANGED <<order, active, trash, nextId, last, tgt, cid, waited, tableLock, regvars, extvars, fieldvars, callvars>>

\* The request gives up before it has written anything: its `before` row was
\* deleted while it waited, or the storage layer ended the transaction.
Abort(p) ==
    /\ pc[p] \in {"wait", "read"}
    /\ pc' = [pc EXCEPT ![p] = "idle"]
    /\ tgt' = [tgt EXCEPT ![p] = NoRow]
    /\ rd' = [rd EXCEPT ![p] = 0]
    /\ lockedBy' = [r \in Ids |-> IF lockedBy[r] = p THEN NoProc ELSE lockedBy[r]]
    /\ UNCHANGED <<order, active, trash, nextId, last, cid, waited, tableLock, regvars, extvars, fieldvars, callvars>>

\* The request lowers the rows that must make room, which takes their row
\* locks; when the precision is exhausted it re-sequences the table instead,
\* under the lock of the table and with no other transaction in progress,
\* and computes the new order again.
ShiftRows(p) ==
    /\ pc[p] = "read"
    /\ IF ~Exhausted(order, active, rd[p])
       THEN /\ \A r \in ShiftRange(order, active, rd[p]) :
                    lockedBy[r] \in {NoProc, p}
            /\ order' = Shifted(order, active, rd[p])
            /\ lockedBy' = [r \in Ids |->
                    IF r \in ShiftRange(order, active, rd[p]) THEN p
                    ELSE lockedBy[r]]
            /\ pc' = [pc EXCEPT ![p] = "shifted"]
            /\ UNCHANGED <<rd, tgt, tableLock>>
       ELSE /\ \A q \in Procs \ {p} : pc[q] \in {"idle", "wait"}
            /\ tableLock = NoProc
            /\ LET o2 == Resequence(order, active)
                   n2 == BeforeOrder(o2, tgt[p])
               IN  IF ~Exhausted(o2, active, n2)
                   THEN /\ order' = Shifted(o2, active, n2)
                        /\ rd' = [rd EXCEPT ![p] = n2]
                        /\ lockedBy' = [r \in Ids |->
                                IF r \in active THEN p ELSE lockedBy[r]]
                        /\ pc' = [pc EXCEPT ![p] = "shifted"]
                        /\ tgt' = tgt
                        /\ tableLock' = p
                   ELSE /\ order' = order
                        /\ rd' = [rd EXCEPT ![p] = 0]
                        /\ lockedBy' = [r \in Ids |->
                                IF lockedBy[r] = p THEN NoProc ELSE lockedBy[r]]
                        /\ pc' = [pc EXCEPT ![p] = "idle"]
                        /\ tgt' = [tgt EXCEPT ![p] = NoRow]
                        /\ tableLock' = tableLock
    /\ UNCHANGED <<active, trash, nextId, last, cid, waited, regvars, extvars, fieldvars, callvars>>

\* The request inserts the new row with the order it computed.
InsertRow(p) ==
    /\ pc[p] = "shifted"
    /\ nextId <= MaxRows
    /\ order' = [order EXCEPT ![nextId] = rd[p]]
    /\ active' = active \cup {nextId}
    /\ nextId' = nextId + 1
    /\ cid' = [cid EXCEPT ![p] = nextId]
    /\ lockedBy' = [lockedBy EXCEPT ![nextId] = p]
    /\ pc' = [pc EXCEPT ![p] = "inserted"]
    /\ last' = Call("before_tx", nextId, tgt[p], FALSE, TRUE)
    /\ events' = <<Created(nextId, Member, tgt[p])>>
    /\ UNCHANGED <<trash, tgt, rd, waited, tableLock, regvars, extvars, fieldvars, err, caller>>

\* The transaction commits; its row locks and the lock of the table, when it
\* holds it, are released.
Commit(p) ==
    /\ pc[p] = "inserted"
    /\ lockedBy' = [r \in Ids |-> IF lockedBy[r] = p THEN NoProc ELSE lockedBy[r]]
    /\ pc' = [pc EXCEPT ![p] = "idle"]
    /\ rd' = [rd EXCEPT ![p] = 0]
    /\ tableLock' = IF tableLock = p THEN NoProc ELSE tableLock
    /\ UNCHANGED <<order, active, trash, nextId, last, tgt, cid, waited, regvars, extvars, fieldvars, callvars>>

NextTx ==
    \/ CreateRowAppend
    \/ \E r \in Ids : DeleteRow(r)
    \/ \E p \in Procs, t \in Ids : Request(p, t)
    \/ \E p \in Procs : LockRow(p)
    \/ \E p \in Procs : Abort(p)
    \/ \E p \in Procs : ShiftRows(p)
    \/ \E p \in Procs : InsertRow(p)
    \/ \E p \in Procs : Commit(p)

SpecTx == Init /\ [][NextTx]_vars

----------------------------------------------------------------------------
\* Changes of the schema of the table (add, alter or drop a column) by the
\* same requests, under the lock of the table, next to the insert
\* transactions.

SchemaChanges == {"add", "alter", "drop"}

\* Variant: the change starts without the lock of the table.
BeginSchemaChangeNoLock(p, kind) ==
    /\ pc[p] = "idle"
    /\ pc' = [pc EXCEPT ![p] = kind]
    /\ tableLock' = p
    /\ UNCHANGED <<rowvars, tgt, rd, cid, waited, lockedBy, regvars, extvars, fieldvars, callvars>>

\* A request starts a change of the schema once no other request holds the
\* lock of the table.
BeginSchemaChange(p, kind) ==
    /\ pc[p] = "idle"
    /\ tableLock = NoProc
    /\ pc' = [pc EXCEPT ![p] = kind]
    /\ tableLock' = p
    /\ UNCHANGED <<rowvars, tgt, rd, cid, waited, lockedBy, regvars, extvars, fieldvars, callvars>>

\* The change of the schema is done and the lock of the table is released.
EndSchemaChange(p) ==
    /\ pc[p] \in SchemaChanges
    /\ pc' = [pc EXCEPT ![p] = "idle"]
    /\ tableLock' = NoProc
    /\ UNCHANGED <<rowvars, tgt, rd, cid, waited, lockedBy, regvars, extvars, fieldvars, callvars>>

\* The table after create_row(), create_row(before=row 1) and
\* move_row(row 1, before=row 2): two rows, the first of them two changes
\* below the whole number, and no request in progress.
InitSchema ==
    /\ order = [r \in Ids |-> IF r = 1 THEN Scale - 2 * change
                              ELSE IF r = 2 THEN Scale - change ELSE 0]
    /\ active = {1, 2}
    /\ trash = {}
    /\ nextId = 3
    /\ last = Call("move_before", 1, 2, FALSE, TRUE)
    /\ pc = [p \in Procs |-> "idle"]
    /\ tgt = [p \in Procs |-> NoRow]
    /\ rd = [p \in Procs |-> 0]
    /\ cid = [p \in Procs |-> NoRow]
    /\ waited = [p \in Procs |-> FALSE]
    /\ lockedBy = [r \in Ids |-> NoProc]
    /\ tableLock = NoProc
    /\ registry = <<>>
    /\ rres = RegCall("none", OtherArg, "none", NoInstance)
    /\ under = [t \in Tags |-> NoInstance]
    /\ field = [f \in FieldIds |->
                   IF f = Speed THEN NumberField(f, NUMBER_TYPE_INTEGER, TRUE)
                   ELSE NumberField(f, NUMBER_TYPE_DECIMAL, FALSE)]
    /\ col = [f \in FieldIds |-> [r \in Ids |-> Null]]
    /\ fres = NoFieldCall
    /\ events = Signals("before_row_update", "row_updated", 1, "a")
    /\ err = "none"
    /\ caller = Member
    /\ sres = NoSelection
    /\ rel = [f \in LinkIds |-> Unsaved]
    /\ related = [f \in LinkIds |-> NoLink]
    /\ ltrash = {}
    /\ spc = [p \in Procs |-> "idle"]
    /\ sfld = [p \in Procs |-> NoLink]
    /\ sid = [p \in Procs |-> NoRelation]
    /\ srel = [p \in Procs |-> NoLink]
    /\ payload = {}

NextSchema ==
    \/ CreateRowAppend
    \/ \E p \in Procs, t \in Ids : Request(p, t)
    \/ \E p \in Procs : LockRow(p)
    \/ \E p \in Procs : Abort(p)
    \/ \E p \in Procs : ShiftRows(p)
    \/ \E p \in Procs : InsertRow(p)
    \/ \E p \in Procs : Commit(p)
    \/ \E p \in Procs, kind \in SchemaChanges : BeginSchemaChange(p, kind)
    \/ \E p \in Procs : EndSchemaChange(p)

SpecSchema == InitSchema /\ [][NextSchema]_vars

----------------------------------------------------------------------------
\* The registry calls

\* Variant: an instance of a registered type replaces the registered one.
RegisterOverwrite(a) ==
    /\ IF a.kind # "instance"
       THEN /\ rres' = RegCall("register", a, "ValueError", NoInstance)
            /\ UNCHANGED <<registry, under>>
       ELSE IF TypeOf[a.uid] \in Keys(registry)
       THEN /\ registry' = [k \in DOMAIN registry |->
                               IF TypeOf[registry[k]] = TypeOf[a.uid]
                               THEN a.uid ELSE registry[k]]
            /\ rres' = RegCall("register", a, "none", NoInstance)
            /\ under' = [under EXCEPT ![TypeOf[a.uid]] = a.uid]
       ELSE /\ registry' = Append(registry, a.uid)
            /\ rres' = RegCall("register", a, "none", NoInstance)
            /\ under' = [under EXCEPT ![TypeOf[a.uid]] = a.uid]
    /\ UNCHANGED <<rowvars, txvars, fieldvars, callvars, extvars>>

\* Registry.register(instance)
Register(a) ==
    /\ IF a.kind # "instance"
       THEN /\ rres' = RegCall("register", a, "ValueError", NoInstance)
            /\ UNCHANGED <<registry, under>>
       ELSE IF TypeOf[a.uid] \in Keys(registry)
       THEN /\ rres' = RegCall("register", a, "AlreadyRegistered", NoInstance)
            /\ UNCHANGED <<registry, under>>
       ELSE /\ registry' = Append(registry, a.uid)
            /\ rres' = RegCall("register", a, "none", NoInstance)
            /\ under' = [under EXCEPT ![TypeOf[a.uid]] = a.uid]
    /\ UNCHANGED <<rowvars, txvars, fieldvars, callvars, extvars>>

\* Registry.unregister(value): a registered Instance is replaced by its type
\* name; a string is deleted from the dict, which raises KeyError when it is
\* not a key; anything else is refused.
Unregister(a) ==
    /\ LET registered == a.kind = "instance"
                            /\ \E k \in DOMAIN registry : registry[k] = a.uid
           isStr == a.kind = "str" \/ registered
           key == IF registered THEN TypeOf[a.uid] ELSE a.name
       IN  IF ~isStr
           THEN /\ rres' = RegCall("unregister", a, "ValueError", NoInstance)
                /\ UNCHANGED <<registry, under>>
           ELSE IF key \notin Keys(registry)
           THEN /\ rres' = RegCall("unregister", a, "KeyError", NoInstance)
                /\ UNCHANGED <<registry, under>>
           ELSE /\ registry' = Without(registry, key)
                /\ rres' = RegCall("unregister", a, "none", NoInstance)
                /\ under' = [under EXCEPT ![key] = NoInstance]
    /\ UNCHANGED <<rowvars, txvars, fieldvars, callvars, extvars>>

\* Variant: a missing type is answered with no instance, as dict.get does.
GetOrNone(t) ==
    /\ rres' = RegCall("get", StrArg(t), "none",
                       IF t \in Keys(registry) THEN Lookup(registry, t)
                       ELSE NoInstance)
    /\ UNCHANGED <<registry, under, rowvars, txvars, fieldvars, callvars, extvars>>

\* Registry.get(type_name)
Get(t) ==
    /\ IF t \notin Keys(registry)
       THEN rres' = RegCall("get", StrArg(t), "DoesNotExist", NoInstance)
       ELSE rres' = RegCall("get", StrArg(t), "none", Lookup(registry, t))
    /\ UNCHANGED <<registry, under, rowvars, txvars, fieldvars, callvars, extvars>>

\* ModelRegistryMixin.get_by_model(model_instance): the first registered
\* instance, in the order of the dict, that matches.
GetByModel(m) ==
    /\ LET hits == {k \in DOMAIN registry : Matches(registry[k], m)} IN
       IF hits = {}
       THEN rres' = RegCall("get_by_model", m, "DoesNotExist", NoInstance)
       ELSE rres' = RegCall("get_by_model", m, "none",
                            registry[CHOOSE k \in hits : \A j \in hits : k <= j])
    /\ UNCHANGED <<registry, under, rowvars, txvars, fieldvars, callvars, extvars>>

NextRegistry ==
    \/ \E i \in InstanceIds : Register(InstArg(i))
    \/ Register(OtherArg)
    \/ \E i \in InstanceIds : Unregister(InstArg(i))
    \/ \E t \in Tags : Unregister(StrArg(t))
    \/ Unregister(OtherArg)
    \/ \E t \in Tags : Get(t)
    \/ \E c \in Classes : GetByModel(ModelObjectArg(c))
    \/ \E c \in Classes : GetByModel(ModelClassArg(c))

SpecRegistry == Init /\ [][NextRegistry]_vars

----------------------------------------------------------------------------
\* The calls of the number field type

\* No call of the row handler is the last call any more.
NoRowCall ==
    /\ last' = Call("none", NoRow, NoRow, FALSE, TRUE)
    /\ events' = <<>>
    /\ err' = "none"
    /\ caller' = Member

\* field_type.prepare_value_for_db(field, value), called for field f.
PrepareValue(f, value) ==
    /\ fres' = FieldCall("prepare", f, value,
                         PrepareValueForDb(field[f], value), NoHook)
    /\ NoRowCall
    /\ UNCHANGED <<order, active, trash, nextId, field, col, txvars, regvars, extvars>>

\* The update of number field f to the given number_type and number_negative
\* on a database of the given vendor: the column is altered when its Django
\* field changes, with the conversion function of the new field, and
\* after_update of the field type is then called once with altered_column.
\* An update that keeps both options changes the name of the field only.
UpdateField(f, type, negative, vendor) ==
    /\ LET old == field[f]
           new == NumberField(f, type, negative)
           altered == ModelField(new) # ModelField(old)
           fn == AlterColumnTypeFunction(vendor, new)
           c1 == IF altered
                 THEN [col EXCEPT ![f] =
                         [r \in Ids |-> IF r \in active \cup trash
                                        THEN Convert(fn, col[f][r])
                                        ELSE col[f][r]]]
                 ELSE col
           au == AfterUpdate(new, old, c1, active, altered)
       IN  /\ field' = [field EXCEPT ![f] = new]
           /\ col' = au.col
           /\ fres' = FieldCall("update_field", f, None, Returned(None),
                        Hook(1, altered, au.ran,
                             {r \in Ids : \E g \in FieldIds :
                                             au.col[g][r] # c1[g][r]}))
    /\ NoRowCall
    /\ UNCHANGED <<order, active, trash, nextId, txvars, regvars, extvars>>

\* The values of the rows that are created: none, or -1 for "Max speed"
\* together with a negative or a positive number for "Price".
CreateValues ==
    {NoValues} \cup
    {[f \in FieldIds |-> IF f = Speed THEN Value("int", -1) ELSE Value("int", n)] :
        n \in {-1, 1}}

Vendors == {"postgresql", "sqlite"}

\* The values that are prepared for the two fields, while the options of
\* the fields are changed.
NextPrepare ==
    \/ \E f \in FieldIds, v \in RawValues : PrepareValue(f, v)
    \/ \E f \in FieldIds, type \in {NUMBER_TYPE_INTEGER, NUMBER_TYPE_DECIMAL},
          negative \in BOOLEAN, vendor \in Vendors :
            UpdateField(f, type, negative, vendor)

SpecPrepare == Init /\ [][NextPrepare]_vars

\* Rows are created and deleted while the options of "Price" are changed.
NextField ==
    \/ \E vals \in CreateValues : CreateRow(Member, vals, NoRow)
    \/ \E r \in Ids : DeleteRow(r)
    \/ \E type \in {NUMBER_TYPE_INTEGER, NUMBER_TYPE_DECIMAL},
          negative \in BOOLEAN, vendor \in Vendors :
            UpdateField(Price, type, negative, vendor)

SpecField == Init /\ [][NextField]_vars

----------------------------------------------------------------------------
\* The calls of the row handler with values, and by the two users

\* The `values` dicts of the calls: none, a price that is refused, and a
\* speed together with a price that is refused or accepted.
RowValues ==
    {NoValues, OneValue(Price, Value("float", -1))} \cup
    {[f \in FieldIds |-> IF f = Speed THEN Value("int", 1) ELSE Value("float", n)] :
        n \in {-1, 1}}

\* The user of the group creates rows and updates them with values.
NextValues ==
    \/ \E vals \in RowValues, t \in {NoRow} \cup Ids : CreateRow(Member, vals, t)
    \/ \E r \in Ids, vals \in RowValues, ret \in BeforeReturns :
          UpdateRow(Member, r, vals, ret)

SpecValues == Init /\ [][NextValues]_vars

\* The `values` dicts of the rows that either user creates: none, and a speed
\* together with a price.  An update has no values.
UserValues ==
    {NoValues, [f \in FieldIds |-> IF f = Speed THEN Value("int", 1)
                                   ELSE Value("float", 1)]}

\* Either user creates, updates, moves and deletes rows.
NextRows ==
    \/ \E u \in Users, vals \in UserValues : CreateRow(u, vals, NoRow)
    \/ \E u \in Users, r \in Ids, ret \in BeforeReturns :
          UpdateRow(u, r, NoValues, ret)
    \/ \E u \in Users, r \in Ids, ret \in BeforeReturns : MoveRow(u, r, NoRow, ret)
    \/ \E u \in Users, r \in Ids, ret \in BeforeReturns : DeleteRowAs(u, r, ret)

SpecRows == Init /\ [][NextRows]_vars

\* Rows are appended, deleted to the trash and restored by either user.
NextRestore ==
    \/ \E u \in Users, vals \in UserValues : CreateRow(u, vals, NoRow)
    \/ \E r \in Ids : DeleteRow(r)
    \/ \E u \in Users, r \in Ids : RestoreRow(u, r)

SpecRestore == Init /\ [][NextRestore]_vars

\* The items of the dicts: a speed under an integer key and under a key of
\* digits, a price that is accepted or refused under a field_<id> key, and a
\* negative number under a key that gives no field or the id of no field.
Items ==
    {Item(Key("int", Speed), Value("int", 1)),
     Item(Key("digits", Speed), Value("int", 1)),
     Item(Key("field", Price), Value("float", 1)),
     Item(Key("field", Price), Value("float", -1)),
     Item(Key("other", Price), Value("float", -1)),
     Item(Key("int", UnknownField), Value("float", -1))}

\* The dicts: up to MaxKeys items with different keys, no two of them for
\* the same field.
Payloads ==
    {pl \in SUBSET Items :
        /\ Cardinality(pl) <= MaxKeys
        /\ \A a, b \in pl :
            (a # b /\ FieldIdOfKey(a.key) # 0)
                => FieldIdOfKey(a.key) # FieldIdOfKey(b.key)
        /\ \A a, b \in pl : a # b => a.key # b.key}

\* A request with a `values` dict arrives.
ReceiveValues(items) ==
    /\ payload' = items
    /\ UNCHANGED <<rowvars, txvars, regvars, fieldvars, callvars, sres, linkvars>>

\* handler.create_row(user, table, values=payload)
CreateRowKeys(u) == CreateRow(u, ExtractValues(payload), NoRow)

\* handler.update_row(user, table, row_id=rid, values=payload)
UpdateRowKeys(u, rid, ret) == UpdateRow(u, rid, ExtractValues(payload), ret)

\* Dicts arrive, and the user of the group creates and updates rows with
\* the one that arrived last.
NextKeys ==
    \/ \E items \in Payloads : ReceiveValues(items)
    \/ CreateRowKeys(Member)
    \/ \E r \in Ids : UpdateRowKeys(Member, r, "a")

SpecKeys == Init /\ [][NextKeys]_vars

\* The state after construction with the arguments of a call of
\* get_include_exclude_fields.
InitSelect ==
    /\ order = [r \in Ids |-> 0]
    /\ active = {}
    /\ trash = {}
    /\ nextId = 1
    /\ last = Call("none", NoRow, NoRow, FALSE, TRUE)
    /\ pc = [p \in Procs |-> "idle"]
    /\ tgt = [p \in Procs |-> NoRow]
    /\ rd = [p \in Procs |-> 0]
    /\ cid = [p \in Procs |-> NoRow]
    /\ waited = [p \in Procs |-> FALSE]
    /\ lockedBy = [r \in Ids |-> NoProc]
    /\ tableLock = NoProc
    /\ registry = <<>>
    /\ rres = RegCall("none", OtherArg, "none", NoInstance)
    /\ under = [t \in Tags |-> NoInstance]
    /\ field = [f \in FieldIds |->
                   IF f = Speed THEN NumberField(f, NUMBER_TYPE_INTEGER, TRUE)
                   ELSE NumberField(f, NUMBER_TYPE_DECIMAL, FALSE)]
    /\ col = [f \in FieldIds |-> [r \in Ids |-> Null]]
    /\ fres = NoFieldCall
    /\ events = <<>>
    /\ err = "none"
    /\ caller = Member
    /\ \E include, exclude \in TokenStrings :
        sres = Selection("args", include, exclude, NoRestriction)
    /\ rel = [f \in LinkIds |-> Unsaved]
    /\ related = [f \in LinkIds |-> NoLink]
    /\ ltrash = {}
    /\ spc = [p \in Procs |-> "idle"]
    /\ sfld = [p \in Procs |-> NoLink]
    /\ sid = [p \in Procs |-> NoRelation]
    /\ srel = [p \in Procs |-> NoLink]
    /\ payload = {}

\* LinkRowField.save() of request p, up to super().save(): the object of a
\* field that is not saved yet is new, without a relation id (g = NoLink) or
\* made as the related field of the saved field g, with the relation id of
\* g; the object of a saved field holds what the database holds.  An object
\* without a relation id gets a new one.
BeginSave(p, f, g) ==
    /\ spc[p] = "idle"
    /\ \A q \in Procs : sfld[q] # f
    /\ IF rel[f] # Unsaved
       THEN g = related[f]
       ELSE g # NoLink =>
                /\ g # f
                /\ rel[g] \notin {Unsaved, NoRelation}
                /\ related[g] = NoLink
                /\ \A q \in Procs : srel[q] # g
    /\ LET given == IF rel[f] # Unsaved THEN rel[f]
                    ELSE IF g # NoLink THEN rel[g] ELSE NoRelation
       IN  sid' = [sid EXCEPT ![p] = IF given = NoRelation
                                     THEN GetNewRelationId(rel) ELSE given]
    /\ spc' = [spc EXCEPT ![p] = "assigned"]
    /\ sfld' = [sfld EXCEPT ![p] = f]
    /\ srel' = [srel EXCEPT ![p] = g]
    /\ UNCHANGED <<rel, related, ltrash, sres, payload>>
    /\ UNCHANGED <<rowvars, txvars, regvars, fieldvars, callvars>>

\* super().save() of request p: the row of the field is written with the
\* relation id of the object, and the related field refers back to it.
FinishSave(p) ==
    /\ spc[p] = "assigned"
    /\ rel' = [rel EXCEPT ![sfld[p]] = sid[p]]
    /\ related' = [f \in LinkIds |->
                      IF f = sfld[p] THEN srel[p]
                      ELSE IF f = srel[p] THEN sfld[p]
                      ELSE related[f]]
    /\ spc' = [spc EXCEPT ![p] = "idle"]
    /\ sfld' = [sfld EXCEPT ![p] = NoLink]
    /\ srel' = [srel EXCEPT ![p] = NoLink]
    /\ sid' = [sid EXCEPT ![p] = NoRelation]
    /\ UNCHANGED <<ltrash, sres, payload>>
    /\ UNCHANGED <<rowvars, txvars, regvars, fieldvars, callvars>>

\* A saved link row field is trashed.
TrashLinkField(f) ==
    /\ rel[f] # Unsaved
    /\ f \notin ltrash
    /\ \A q \in Procs : sfld[q] # f /\ srel[q] # f
    /\ ltrash' = ltrash \cup {f}
    /\ UNCHANGED <<rel, related, spc, sfld, sid, srel, sres, payload>>
    /\ UNCHANGED <<rowvars, txvars, regvars, fieldvars, callvars>>

NextLink ==
    \/ \E p \in Procs, f \in LinkIds, g \in LinkIds \cup {NoLink} : BeginSave(p, f, g)
    \/ \E p \in Procs : FinishSave(p)
    \/ \E f \in LinkIds : TrashLinkField(f)

SpecLink == Init /\ [][NextLink]_vars

\* row_handler.get_include_exclude_fields(table, include, exclude) with the
\* arguments that were drawn.
GetFields ==
    /\ sres.op = "args"
    /\ sres' = Selection("get", sres.include, sres.exclude,
                         GetIncludeExcludeFields(TableFields, sres.include,
                                                 sres.exclude))
    /\ UNCHANGED <<rowvars, txvars, regvars, fieldvars, callvars, linkvars, payload>>

NextSelect == GetFields

SpecSelect == InitSelect /\ [][NextSelect]_vars

TypeOK ==
    /\ order \in [Ids -> Int]
    /\ active \subseteq Ids
    /\ trash \subseteq Ids
    /\ active \cap trash = {}
    /\ nextId \in 1..(MaxRows + 1)

----------------------------------------------------------------------------
\* Properties of the row operations.  A step is recognised by the call it
\* records: in a step of Next, last' is the call that the step made.

\* No two rows of act have the same order.
NoTies(ord, act) == \A a, b \in act : a # b => ord[a] # ord[b]

\* C1 (as stated): an append gives the new row the order 1 when the table has
\* no rows, and the highest existing order plus 1 otherwise.
C1_Original ==
    [][last'.op = "append" =>
        order'[last'.id] = IF active = {} THEN Scale
                           ELSE MaxOrderOf(order, active) + Scale]_vars

\* C1: an append gives the new row the order 1 when the table has no rows, and
\* otherwise the whole number that follows the highest existing order rounded
\* up to a whole number: a whole number, at least 1 above every existing
\* order and less than 2 above the highest one.
C1_AppendOrder ==
    [][last'.op = "append" =>
        LET new == order'[last'.id] IN
        /\ new % Scale = 0
        /\ \A r \in active : order[r] + Scale <= new
        /\ active = {} => new = Scale
        /\ active # {} => \E r \in active : order[r] + 2 * Scale > new]_vars

\* An append has just been made to a table whose highest order was not a
\* whole number.
C1_Witness ==
    /\ last.op = "append"
    /\ \E r \in active \ {last.id} :
        /\ order[r] % Scale # 0
        /\ \A s \in active \ {last.id} : order[s] <= order[r]

\* C2 (as stated): of two successive inserts before the same row, without a
\* re-sequencing pass, the second new row is handed a strictly lower order
\* than the first was handed.
C2_Original ==
    [][(/\ last.op = "before" /\ last.ok
        /\ last'.op = "before" /\ last'.ok /\ ~last'.reseq
        /\ last'.before = last.before)
       => order'[last'.id] < order[last.id]]_vars

\* C2: of two successive inserts before the same row, without a re-sequencing
\* pass, the second new row is handed the order the first was handed, and the
\* first is lowered by one change, so that the rows list as first, second,
\* target with distinct orders; an insert that runs the re-sequencing pass
\* leaves the rows that existed with the orders 1..N in the relative order
\* they had.
C2_SameBoundary ==
    [][/\ (/\ last.op = "before" /\ last.ok
           /\ last'.op = "before" /\ last'.ok /\ ~last'.reseq
           /\ last'.before = last.before)
          => /\ order'[last'.id] = order[last.id]
             /\ order'[last.id] = order[last.id] - change
             /\ order'[last.id] < order'[last'.id]
             /\ order'[last'.id] < order'[last'.before]
       /\ (last'.op = "before" /\ last'.ok /\ last'.reseq)
          => /\ {order'[r] : r \in active}
                    = {i * Scale : i \in 1..Cardinality(active)}
             /\ \A r, s \in active :
                    ListedBefore(order, r, s) => order'[r] < order'[s]]_vars

\* An insert before a row has just run the re-sequencing pass over at least
\* two rows.
C2_Witness ==
    /\ last.op = "before" /\ last.ok /\ last.reseq
    /\ Cardinality(active) >= 3

\* C3 (as stated): an insert before row t, without a re-sequencing pass, gives
\* the new row t's order minus 1 when t is the first row, and otherwise the
\* midpoint of t's order and the order of the row listed right before t.
C3_Original ==
    [][(last'.op = "before" /\ last'.ok /\ ~last'.reseq) =>
        LET t == last'.before
            k == Rank(order, active, t)
            pred == CHOOSE r \in active : Rank(order, active, r) = k - 1
        IN  order'[last'.id] = IF k = 1 THEN order[t] - Scale
                               ELSE (order[pred] + order[t]) \div 2]_vars

\* C3: an insert before row t gives the new row t's order minus one change
\* (one unit of the 20th fractional digit), whether or not t is the first
\* row; t keeps its order unless the re-sequencing pass ran.
C3_BeforeOrder ==
    [][(last'.op = "before" /\ last'.ok) =>
        /\ order'[last'.id] = order'[last'.before] - change
        /\ ~last'.reseq => order'[last'.before] = order[last'.before]]_vars

\* A row has just been inserted before a row that was not the first one.
C3_Witness ==
    /\ last.op = "before" /\ last.ok /\ ~last.reseq
    /\ Rank(order, active, last.id) > 1

\* C4: when no two rows have the same order, a create_row with before=t lists
\* the new row right in front of t, a create_row without before lists it
\* last, the rows that existed keep their relative listing order, and again
\* no two rows have the same order.
C4_Listing ==
    [][(last'.op \in {"append", "before"} /\ last'.ok /\ NoTies(order, active))
       => LET old == Listing(order, active)
              n == Cardinality(active)
              k == IF last'.op = "append" THEN n + 1
                   ELSE Rank(order, active, last'.before)
          IN  /\ Listing(order', active')
                    = [i \in 1..(n + 1) |->
                          IF i < k THEN old[i]
                          ELSE IF i = k THEN last'.id ELSE old[i - 1]]
              /\ NoTies(order', active')]_vars

\* A row has just been inserted between two rows.
C4_Witness ==
    /\ last.op = "before" /\ last.ok
    /\ Rank(order, active, last.id) > 1
    /\ Rank(order, active, last.before) = Rank(order, active, last.id) + 1

\* C5 (as stated): an insert before a row, without a re-sequencing pass,
\* changes the order of no row that existed.
C5_Original ==
    [][(last'.op = "before" /\ last'.ok /\ ~last'.reseq) =>
        \A r \in active : order'[r] = order[r]]_vars

\* C5: an insert before row t, without a re-sequencing pass, lowers by one
\* change the order of every row whose order is below t's and above the whole
\* number below t's order minus one change, and changes the order of no
\* other row that existed, trashed rows included.
C5_Frame ==
    [][(last'.op = "before" /\ last'.ok /\ ~last'.reseq) =>
        LET t == last'.before IN
        /\ \A r \in active :
            order'[r] = IF order[r] < order[t]
                           /\ order[r] > Floor(order[t] - change)
                        THEN order[r] - change ELSE order[r]
        /\ \A r \in trash : order'[r] = order[r]]_vars

\* A row has just been inserted and the row that held the new row's order was
\* lowered to make room.
C5_Witness ==
    /\ last.op = "before" /\ last.ok /\ ~last.reseq
    /\ \E r \in active :
        /\ order[r] = order[last.id] - change
        /\ order[r] > Floor(order[last.id])

\* C6 (as stated): an append that follows the delete of a row, other rows
\* remaining, gives the new row the highest remaining order plus 1, and never
\* the order of the deleted row.
C6_Original ==
    [][(last.op = "delete" /\ last'.op = "append" /\ active # {}) =>
        /\ order'[last'.id] = MaxOrderOf(order, active) + Scale
        /\ order'[last'.id] # order[last.id]]_vars

\* C6: an append that follows the delete of a row, other rows remaining, gives
\* the new row the highest remaining order rounded up to a whole number, plus
\* 1, which is above every remaining order; it is the order of the deleted
\* row only when that order was a whole number above every remaining order.
C6_DeleteThenAppend ==
    [][(last.op = "delete" /\ last'.op = "append" /\ active # {}) =>
        LET new == order'[last'.id]
            d == last.id
        IN  /\ new = Ceil(MaxOrderOf(order, active)) + Scale
            /\ \A r \in active : order[r] < new
            /\ new = order[d] =>
                /\ order[d] % Scale = 0
                /\ \A r \in active : order[r] < order[d]]_vars

\* An append has just handed out the order of a trashed row while other rows
\* remain.
C6_Witness ==
    /\ last.op = "append"
    /\ Cardinality(active) >= 2
    /\ \E d \in trash : order[d] = order[last.id]

\* C7: a create_row or move_row with a before row never fails on exhausted
\* precision: after at most one re-sequencing pass and one retry the row is
\* in the table, one change below the row it was placed before.
C7_ExhaustionHidden ==
    last.op \in {"before", "move_before"} =>
        /\ last.ok
        /\ last.id \in active
        /\ order[last.id] = order[last.before] - change
        /\ order[last.id] % Scale # 0

\* An insert has just found the precision exhausted, re-sequenced and
\* succeeded on the retry.
C7_Witness ==
    /\ last.op = "before" /\ last.reseq /\ last.ok
    /\ order[last.before] % Scale = 0
    /\ order[last.id] = order[last.before] - change

\* C8: delete_row removes exactly the deleted row from the rows of the table,
\* puts it in the trash, and leaves the order of every other row as it was.
C8_DeleteFrame ==
    [][last'.op = "delete" =>
        /\ last'.id \in active
        /\ active' = active \ {last'.id}
        /\ trash' = trash \cup {last'.id}
        /\ \A r \in Ids \ {last'.id} : order'[r] = order[r]]_vars

\* A row has just been deleted from a table that keeps a row with a
\* fractional order.
C8_Witness ==
    /\ last.op = "delete"
    /\ \E r \in active : order[r] % Scale # 0

C10_LockedInsert ==
    /\ \A p, q \in Procs :
        (p # q /\ pc[p] \in {"read", "shifted", "inserted"}
               /\ pc[q] \in {"read", "shifted", "inserted"})
            => tgt[p] # tgt[q]
    /\ \A p \in Procs :
        pc[p] \in {"read", "shifted", "inserted"} => lockedBy[tgt[p]] = p
    /\ NoTies(order, active)

\* A request that had to wait for the row lock of its `before` row has
\* inserted its row, and the row of the request it waited for is in the table
\* in front of the same `before` row.
C10_Witness ==
    \E p, q \in Procs :
        /\ p # q
        /\ pc[q] = "inserted" /\ waited[q]
        /\ pc[p] = "idle" /\ tgt[p] = tgt[q]
        /\ cid[p] \in active /\ cid[q] \in active /\ cid[p] # cid[q]
        /\ order[cid[p]] < order[cid[q]]
        /\ order[cid[q]] < order[tgt[q]]

----------------------------------------------------------------------------
\* Properties of the registry.  A step is recognised by the call it records
\* in rres'.

\* C12: register(instance) raises the already-registered error whenever the
\* type of the instance is a key of the registry, and then leaves the registry
\* as it was, the earlier instance included; otherwise it adds the entry
\* type -> instance and changes no other entry.
C12_Register ==
    [][(rres'.op = "register" /\ rres'.arg.kind = "instance") =>
        LET i == rres'.arg.uid
            t == TypeOf[i]
        IN  IF t \in Keys(registry)
            THEN /\ rres'.err = "AlreadyRegistered"
                 /\ registry' = registry
            ELSE /\ rres'.err = "none"
                 /\ Keys(registry') = Keys(registry) \cup {t}
                 /\ Lookup(registry', t) = i
                 /\ \A u \in Keys(registry) :
                        Lookup(registry', u) = Lookup(registry, u)]_vars

\* An instance was refused because another instance of its type is
\* registered.
C12_Witness ==
    /\ rres.op = "register"
    /\ rres.err = "AlreadyRegistered"
    /\ Len(registry) >= 2
    /\ Lookup(registry, TypeOf[rres.arg.uid]) # rres.arg.uid

\* C13: after any register and unregister calls, get(tag) raises the
\* does-not-exist error exactly when the calls left no instance registered
\* under tag, returns that instance otherwise, and leaves the registry as it
\* was.
C13_Get ==
    [][rres'.op = "get" =>
        LET t == rres'.arg.name IN
        /\ registry' = registry
        /\ rres'.err \in {"none", "DoesNotExist"}
        /\ rres'.err = "DoesNotExist" <=> under[t] = NoInstance
        /\ rres'.err = "none" => rres'.ret = under[t] /\ rres'.ret # NoInstance]_vars

\* get returned the later registered of two instances that have the same
\* type; only one of the two can be registered at a time.
C13_Witness ==
    /\ rres.op = "get"
    /\ rres.err = "none"
    /\ rres.ret = 3
    /\ registry = <<1, 3>>

----------------------------------------------------------------------------
\* Properties of the number field type.  A step is recognised by the call it
\* records in fres'.

\* C15 (as stated): for every number field and every raw value,
\* prepare_value_for_db raises a ValidationError that names the field id when
\* the value is negative and number_negative is false; it returns the value,
\* as a Decimal when number_type is DECIMAL, when the value is not negative or
\* number_negative is true.
C15_Prepare ==
    [][fres'.op = "prepare" =>
        LET v == fres'.raw
            f == field[fres'.field]
            out == fres'.out
            negative == v # None /\ v.num < 0
        IN  /\ (negative /\ ~f.number_negative) =>
                (out.err = "ValidationError" /\ out.field = f.id)
            /\ (~negative \/ f.number_negative) =>
                /\ out.err = "none"
                /\ out.value = IF f.number_type = NUMBER_TYPE_DECIMAL /\ v # None
                               THEN ToDecimal(v) ELSE v]_vars

\* The rows that the table holds, trashed or not.
Stored == active \cup trash

\* C18 (as stated): when number_negative of a field goes from true to false
\* and the column was not altered, after_update sets every stored negative
\* value of the column of the field to 0 and leaves every other value of that
\* column and every other column as it was; when the column was altered or
\* number_negative did not go from true to false, after_update changes no
\* stored value.
C18_AfterUpdate ==
    [][fres'.op = "update_field" =>
        LET f == fres'.field
            flip == field[f].number_negative /\ ~field'[f].number_negative
            altered == ModelField(field'[f]) # ModelField(field[f])
        IN  IF flip /\ ~altered
            THEN /\ \A r \in Stored :
                        col'[f][r] = IF col[f][r] # Null /\ col[f][r] < 0
                                     THEN 0 ELSE col[f][r]
                 /\ \A g \in FieldIds \ {f} : col'[g] = col[g]
            ELSE fres'.hook.rewritten = {}]_vars

\* C19: every update of a field calls after_update of the new field type
\* once, with altered_column telling whether the column was altered; the
\* rewrite of the negative values runs once when number_negative goes from
\* true to false without the column being altered, and not at all otherwise,
\* in particular not when neither number_type nor number_negative changed.
C19_HookOnce ==
    [][fres'.op = "update_field" =>
        LET f == fres'.field
            flip == field[f].number_negative /\ ~field'[f].number_negative
            altered == ModelField(field'[f]) # ModelField(field[f])
        IN  /\ fres'.hook.calls = 1
            /\ fres'.hook.altered = altered
            /\ fres'.hook.ran = IF flip /\ ~altered THEN 1 ELSE 0
            /\ field'[f] = field[f] =>
                  (fres'.hook.ran = 0 /\ fres'.hook.rewritten = {} /\ col' = col)]_vars

\* after_update ran its update once and rewrote the negative value of a row.
C19_Witness ==
    /\ fres.op = "update_field"
    /\ fres.hook.calls = 1
    /\ ~fres.hook.altered
    /\ fres.hook.ran = 1
    /\ fres.hook.rewritten # {}
    /\ \E r \in fres.hook.rewritten : col[fres.field][r] = 0

----------------------------------------------------------------------------
\* Properties of the calls of the row handler.  A step is recognised by the
\* call it records in last', err', events' and caller'.

\* The names of the signals that events holds.
Sent(evs) == {evs[i].name : i \in DOMAIN evs}

\* C16: a create_row or update_row that raises ValidationError adds no row,
\* changes no value and no order of a row, and sends neither row_created nor
\* row_updated.
C16_NoSideEffects ==
    [][(err' = "ValidationError" /\ last'.op \in {"append", "before", "update"}) =>
        /\ active' = active
        /\ trash' = trash
        /\ nextId' = nextId
        /\ order' = order
        /\ col' = col
        /\ Sent(events') \cap {"row_created", "row_updated"} = {}]_vars

\* An update of a row that holds values was refused, after another row had
\* been placed before it.
C16_Witness ==
    /\ err = "ValidationError"
    /\ last.op = "update"
    /\ last.id \in active
    /\ col[Speed][last.id] = Null
    /\ \E r \in active : order[r] < order[last.id] /\ col[Price][r] = 1

\* C17: a create_row, update_row, move_row or delete_row of a user who is not
\* in the group raises UserNotInGroup, leaves the rows, their values, their
\* orders and the trash as they were, and sends no signal.
C17_Permission ==
    [][(caller' = Outsider /\ last'.op # "none") =>
        /\ err' = "UserNotInGroup"
        /\ ~last'.ok
        /\ active' = active
        /\ trash' = trash
        /\ nextId' = nextId
        /\ order' = order
        /\ col' = col
        /\ events' = <<>>]_vars

\* The delete of a row that holds values was refused for the user who is not
\* in the group; the row is still there.
C17_Witness ==
    /\ caller = Outsider
    /\ err = "UserNotInGroup"
    /\ last.op = "delete"
    /\ last.id \in active
    /\ col[Price][last.id] = 1
    /\ trash # {}

\* C20: a successful update_row, move_row or delete_row sends its `before`
\* signal once and then its `after` signal once, the second with the return
\* value of the first; a successful create_row sends row_created once; a call
\* that raises UserNotInGroup or RowDoesNotExist sends no `after` signal.
C20_Signals ==
    [][last'.op # "none" =>
        /\ (last'.ok /\ last'.op \in {"update", "move_end", "move_before", "delete"}) =>
            LET before == IF last'.op = "delete" THEN "before_row_delete"
                          ELSE "before_row_update"
                after == IF last'.op = "delete" THEN "row_deleted"
                         ELSE "row_updated"
            IN  /\ Len(events') = 2
                /\ events'[1].name = before
                /\ events'[2].name = after
                /\ events'[1].row = last'.id
                /\ events'[2].row = last'.id
                /\ events'[1].ret \in BeforeReturns
                /\ events'[2].ret = events'[1].ret
        /\ (last'.ok /\ last'.op \in {"append", "before"}) =>
            events' = <<Created(last'.id, caller', last'.before)>>
        /\ err' \in {"UserNotInGroup", "RowDoesNotExist"} =>
            Sent(events') \cap {"row_created", "row_updated", "row_deleted"} = {}]_vars

\* A row was moved to the end: before_row_update and then row_updated were
\* sent, the second with what the receivers of the first returned.
C20_Witness ==
    /\ last.op = "move_end"
    /\ last.ok
    /\ Len(events) = 2
    /\ events[1].name = "before_row_update"
    /\ events[2].name = "row_updated"
    /\ events[2].ret = "b"
    /\ events[1].ret = "b"

----------------------------------------------------------------------------
\* Properties of the lock of the table.

----------------------------------------------------------------------------
\* Properties of the trash.  A step is recognised by the call it records in
\* last'.

\* C21: a restore that succeeds takes a row of the trash back into the rows
\* of the table, leaves the other rows where they are, and sends row_created
\* once, for that row, with before=None and user=None, whoever restores.
C21_Restore ==
    [][(last'.op = "restore" /\ last'.ok) =>
        /\ last'.id \in trash
        /\ active' = active \cup {last'.id}
        /\ trash' = trash \ {last'.id}
        /\ caller' \in Users
        /\ events' = <<Created(last'.id, NoUser, NoRow)>>]_vars

\* The member has restored a row that was created with values: the row is
\* back in the table and the signal of the restore names no user, while the
\* signal of its creation named the member.
C21_Witness ==
    /\ last.op = "restore" /\ last.ok
    /\ caller = Member
    /\ last.id \in active
    /\ col[Price][last.id] # Null
    /\ Len(events) = 1
    /\ events[1].name = "row_created"
    /\ events[1].user = NoUser /\ events[1].user # caller
    /\ events[1].before = NoRow

\* C26 (as stated): after any sequence of creates, moves, deletes and
\* restores, no two rows of the table have the same order.
C26_NoTies == NoTies(order, active)

----------------------------------------------------------------------------
\* Properties of the selection of fields.  sres holds the arguments and the
\* outcome of the call.

\* The fields of the table that a token of value names.
Named(value) ==
    {f \in TableFields :
        \E k \in DOMAIN value : value[k].form # "word" /\ value[k].id = f}

\* value holds a token that gives a field id.
GivesId(value) == \E k \in DOMAIN value : value[k].form # "word"

----------------------------------------------------------------------------
\* Properties of the keys of a `values` dict.  A step that leaves payload
\* alone is a call of the row handler with that dict.

\* The items of payload whose key is an integer, a str of digits or
\* field_<integer> with the id of field f.
ItemsFor(f) ==
    {it \in payload : it.key.form \in {"int", "digits", "field"} /\ it.key.id = f}

\* The fields of the table for which payload holds a number that the field
\* refuses: a negative number for a field without negative numbers.
Refused ==
    {f \in FieldIds :
        \E it \in ItemsFor(f) : it.value.num < 0 /\ ~field[f].number_negative}

\* C23: create_row and update_row with a `values` dict fail only for a value
\* whose key gives a field of the table, whatever the other keys and their
\* values are; when they succeed, every field of the table whose id a key
\* gives (as an integer, a str of digits or field_<integer>) holds the value
\* of that key, and every other field of the row holds what it held before
\* (nothing, for a new row).
C23_DroppedKeys ==
    [][(payload' = payload /\ last'.op \in {"append", "update"}
            /\ (last'.op = "update" => last'.id \in active)) =>
        /\ err' # "none" <=> Refused # {}
        /\ err' # "none" => err' = "ValidationError" /\ col' = col
        /\ err' = "none" =>
            \A f \in FieldIds :
                col'[f][last'.id] =
                    IF ItemsFor(f) # {}
                    THEN (CHOOSE it \in ItemsFor(f) : TRUE).value.num
                    ELSE IF last'.op = "update" THEN col[f][last'.id]
                    ELSE Null]_vars

\* A row that has a price was updated with a dict that holds a speed under
\* a key of digits and a negative number under a key that gives no field:
\* the update succeeded, the row has the speed and still has its price.
C23_Witness ==
    /\ last.op = "update" /\ last.ok /\ err = "none"
    /\ payload = {Item(Key("digits", Speed), Value("int", 1)),
                  Item(Key("other", Price), Value("float", -1))}
    /\ col[Speed][last.id] = 1
    /\ col[Price][last.id] = 1

----------------------------------------------------------------------------
\* Properties of the link row fields.

\* C24 (as stated): every saved link row field has a relation id, and two
\* link row fields, trashed ones included, have the same relation id only
\* when each is the related field of the other.
C24_UniqueRelation ==
    /\ \A f \in ObjectsAndTrash(rel) : rel[f] # NoRelation
    /\ \A f, g \in ObjectsAndTrash(rel) :
        (f # g /\ rel[f] = rel[g]) => (related[f] = g /\ related[g] = f)

\* C25 (as stated): no column of a number field that does not allow negative
\* numbers holds a negative number, after any row writes and field updates
\* with any database vendor.
C25_NonNegative ==
    \A f \in FieldIds : \A r \in Stored :
        ~field[f].number_negative => (col[f][r] = Null \/ col[f][r] >= 0)

====
